---------------------------- MODULE Spec2Model ----------------------------
(***************************************************************************)
(* Model of unreliable-message: the per-peer message queue and reassembly  *)
(* stage of src/src/lib.rs and the Sender / Receiver of                    *)
(* src/src/network.rs.                                                     *)
(*                                                                         *)
(* Option<T> is a sequence of length 0 (None) or 1 (Some).  A VecMap or    *)
(* HashMap is a function whose domain is the set of keys present.  Vec<u8> *)
(* is a sequence of bytes.                                                 *)
(*                                                                         *)
(* Each operation of the code is an operator from the state before the     *)
(* call and the arguments to the state after it and the value returned;    *)
(* the actions apply these operators to inputs drawn from small sets.      *)
(* Beside some operators stands a variant with one plausible defect, used  *)
(* to show that the properties below depend on the operator.               *)
(***************************************************************************)
EXTENDS Integers, Sequences, FiniteSets, Bags, TLC

VARIABLES
    mq,     \* a MsgQueue driven directly, as the tests of lib.rs drive one
    call,   \* the last operation called, with its arguments
    ret,    \* what that operation returned
    queue,  \* Receiver.queue: the MsgQueue of every source address seen
    filter, \* Receiver.filter
    recv_datagram_length,  \* Receiver.datagram_length
    out_queue,        \* Sender.out_queue
    last_id,          \* Sender.last_id
    datagram_length,  \* Sender.datagram_length
    replication,      \* Sender.replication
    overflow_checks,  \* the build: TRUE when an arithmetic overflow panics
                      \* (debug), FALSE when it wraps (release)
    net,       \* the datagrams sent and not yet received, a bag
    dropped,   \* the queue entries send_one popped and failed to send
    enqueued,  \* the id and the message of every enqueue that returned Ok
    polled,    \* every (address, CompleteMessage) poll has returned
    transmitted  \* the datagrams the Sender's socket has taken, in order

recv_vars == <<queue, filter, recv_datagram_length>>
send_vars == <<out_queue, last_id, datagram_length, replication, overflow_checks>>
net_vars == <<net, dropped, enqueued, polled, transmitted>>
vars == <<mq, call, ret, queue, filter, recv_datagram_length, out_queue, last_id,
          datagram_length, replication, overflow_checks, net, dropped, enqueued,
          polled, transmitted>>

---------------------------------------------------------------------------
(* Bounds of the inputs.                                                   *)

\* message ids of the chunks fed to a MsgQueue are 1..MaxId
MaxId == 2
\* a message reassembled piece by piece has 2..MaxPieces pieces
MaxPieces == 3

None == <<>>
Some(x) == <<x>>

Ids == 1..MaxId
\* piece index of the chunks fed to a MsgQueue: in range, 0, or past the total
PieceIndexes == {0, 1, 2, 3}
\* piece total of the chunks fed to a MsgQueue
PieceTotals == {1, 2}
Payloads == {<<0>>, <<1>>}

\* MsgChunk(MsgId, PieceNum(index, total), Vec<u8>)
MsgChunk(id, index, total, bytes) ==
    [id |-> id, index |-> index, total |-> total, bytes |-> bytes]

\* CompleteMessage(MsgId, Vec<u8>)
CompleteMessage(id, bytes) == [id |-> id, bytes |-> bytes]

Chunks ==
    {MsgChunk(id, i, t, b) : id \in Ids, i \in PieceIndexes, t \in PieceTotals, b \in Payloads}

NoChunk == MsgChunk(0, 0, 0, <<>>)

---------------------------------------------------------------------------
(* Maps.                                                                   *)

MapInsert(m, k, v) == [x \in DOMAIN m \cup {k} |-> IF x = k THEN v ELSE m[x]]
MapRemove(m, k) == [x \in DOMAIN m \ {k} |-> m[x]]
EmptyMap == [x \in {} |-> 0]

SetMin(S) == CHOOSE x \in S : \A y \in S : x <= y
SetMax(S) == CHOOSE x \in S : \A y \in S : x >= y

---------------------------------------------------------------------------
(* MsgStage                                                                *)

add_chunk(stage, chunk) ==
    LET this == chunk.index IN
    IF this \notin DOMAIN stage.pieces
    THEN [stage EXCEPT !.pieces = MapInsert(stage.pieces, this, chunk)]
    ELSE stage

MsgStage_new(starter) ==
    add_chunk([this_id |-> starter.id,
               total_pieces |-> starter.total,
               pieces |-> EmptyMap], starter)

is_ready(stage) == stage.total_pieces = Cardinality(DOMAIN stage.pieces)

\* VecMap::iter visits the entries in ascending key order
RECURSIVE AppendInKeyOrder(_, _)
AppendInKeyOrder(pieces, keys) ==
    IF keys = {} THEN <<>>
    ELSE LET k == SetMin(keys) IN
         pieces[k].bytes \o AppendInKeyOrder(pieces, keys \ {k})

\* variant: the pieces appended in descending key order
RECURSIVE AppendInReverseKeyOrder(_, _)
AppendInReverseKeyOrder(pieces, keys) ==
    IF keys = {} THEN <<>>
    ELSE LET k == SetMax(keys) IN
         pieces[k].bytes \o AppendInReverseKeyOrder(pieces, keys \ {k})

merge_reversed(stage) ==
    CompleteMessage(stage.this_id,
                    AppendInReverseKeyOrder(stage.pieces, DOMAIN stage.pieces))

merge(stage) ==
    CompleteMessage(stage.this_id, AppendInKeyOrder(stage.pieces, DOMAIN stage.pieces))

---------------------------------------------------------------------------
(* MsgQueue                                                                *)

MsgQueue_new == [last_released |-> None, stages |-> EmptyMap]

\* variant: no Stage is discarded
mark_published_keep_all(q, id) == [q EXCEPT !.last_released = Some(id)]

\* variant: last_released is not updated
mark_published_keep_last(q, id) ==
    [last_released |-> q.last_released,
     stages |-> [open \in {o \in DOMAIN q.stages : ~(id > o)} |-> q.stages[open]]]

\* variant: every Stage is discarded
mark_published_purge_all(q, id) ==
    [last_released |-> Some(id), stages |-> EmptyMap]

mark_published(q, id) ==
    [last_released |-> Some(id),
     stages |-> [open \in {o \in DOMAIN q.stages : ~(id > o)} |-> q.stages[open]]]

\* variant: the test is left out
is_stale_never(q, id) == FALSE

\* variant: a chunk of the id last released is let through
is_stale_strict(q, id) ==
    q.last_released # None /\ q.last_released[1] > id

\* the test that opens insert_chunk: the chunk is of a message already superseded
is_stale(q, id) ==
    q.last_released # None /\ q.last_released[1] >= id

\* the queue after the call and the value returned
insert_chunk(q, chunk) ==
    LET id == chunk.id IN
    IF is_stale(q, id)
    THEN [q |-> q, ret |-> None]
    ELSE IF chunk.total = 1
    THEN [q |-> mark_published(q, id),
          ret |-> Some(CompleteMessage(id, chunk.bytes))]
    ELSE IF id \in DOMAIN q.stages
    THEN LET stage == add_chunk(q.stages[id], chunk) IN
         IF is_ready(stage)
         THEN [q |-> mark_published([q EXCEPT !.stages = MapRemove(q.stages, id)], id),
               ret |-> Some(merge(stage))]
         ELSE [q |-> [q EXCEPT !.stages = MapInsert(q.stages, id, stage)],
               ret |-> None]
    ELSE [q |-> [q EXCEPT !.stages = MapInsert(q.stages, id, MsgStage_new(chunk))],
          ret |-> None]

---------------------------------------------------------------------------
(* The wire.  bincode writes the fields of a MsgChunk one after the other: *)
(* the id, the two piece numbers, the length of the payload and the        *)
(* payload; a datagram that does not hold all of them does not decode.     *)

encode(chunk) ==
    <<chunk.id, chunk.index, chunk.total, Len(chunk.bytes), chunk.bytes>>

\* the bytes bincode writes for a chunk: a u64 id, two u16 piece numbers, a
\* u64 length and the payload
encoded_size(chunk) == 8 + 2 + 2 + 8 + Len(chunk.bytes)

\* bincode::encode under SizeLimit::Bounded(bound)
encode_bounded(chunk, bound) ==
    IF encoded_size(chunk) > bound THEN None ELSE Some(encode(chunk))

decode(data) ==
    IF Len(data) = 5 /\ Len(data[5]) = data[4]
    THEN Some(MsgChunk(data[1], data[2], data[3], data[5]))
    ELSE None

\* the bytes of a datagram: of the id, the piece numbers and the length it
\* holds, and of its payload
datagram_size(data) ==
    IF Len(data) = 5 THEN 8 + 2 + 2 + 8 + Len(data[5])
    ELSE IF Len(data) = 4 THEN 8 + 2 + 2 + 8
    ELSE IF Len(data) = 3 THEN 8 + 2 + 2
    ELSE IF Len(data) = 2 THEN 8 + 2
    ELSE IF Len(data) = 1 THEN 8
    ELSE 0

\* socket.recv_from into a buffer of buflen bytes, and the slice
\* buf[0 .. amnt] poll goes on with: a longer datagram is cut to the buffer
recv_from(data, buflen) ==
    IF datagram_size(data) <= buflen THEN data
    ELSE IF buflen >= 8 + 2 + 2 + 8
    THEN <<data[1], data[2], data[3], data[4],
           SubSeq(data[5], 1, buflen - (8 + 2 + 2 + 8))>>
    ELSE IF buflen >= 8 + 2 + 2 THEN SubSeq(data, 1, 3)
    ELSE IF buflen >= 8 + 2 THEN SubSeq(data, 1, 2)
    ELSE IF buflen >= 8 THEN SubSeq(data, 1, 1)
    ELSE <<>>

Malformed == <<>>

---------------------------------------------------------------------------
(* ReceiverFilter and Receiver                                             *)

Addrs == {"a1", "a2"}

\* Receiver.datagram_length: a buffer that holds every datagram sent here,
\* and one that holds a chunk's header and no payload byte
WideLength == 64
RecvLengths == {8 + 2 + 2 + 8, WideLength}
NoAddr == "-"
NoMessage == CompleteMessage(0, <<>>)

empty_blacklist == [mode |-> "Blacklist", set |-> {}]

\* variant: a whitelist is read as a blacklist
allow_through_as_blacklist(flt, addr) == addr \notin flt.set

allow_through(flt, addr) ==
    IF flt.mode = "Whitelist" THEN addr \in flt.set ELSE addr \notin flt.set

\* variant: one MsgQueue for all the addresses
peer_key_shared(from) == "a1"

\* the key of Receiver.queue under which a datagram's MsgQueue is kept
peer_key(from) == from

\* what one call of poll can end with, or that it goes on waiting
Waiting == [kind |-> "waiting", from |-> NoAddr, msg |-> NoMessage]
Ok(from, msg) == [kind |-> "ok", from |-> from, msg |-> msg]
Err(kind) == [kind |-> kind, from |-> NoAddr, msg |-> NoMessage]

\* variant: the MsgQueue of the source address is created before decoding
poll_datagram_entry_first(rq, flt, buflen, from, data) ==
    IF ~allow_through(flt, from)
    THEN [queue |-> rq, ret |-> Waiting]
    ELSE LET key == peer_key(from)
             q == IF key \in DOMAIN rq THEN rq[key] ELSE MsgQueue_new
             decoded == decode(recv_from(data, buflen)) IN
         IF decoded = None
         THEN [queue |-> MapInsert(rq, key, q), ret |-> Err("decode_error")]
         ELSE LET r == insert_chunk(q, decoded[1]) IN
              [queue |-> MapInsert(rq, key, r.q),
               ret |-> IF r.ret # None THEN Ok(from, r.ret[1]) ELSE Waiting]

\* one turn of the loop of poll on the datagram (data, from) that arrives,
\* read into a buffer of buflen bytes: Receiver.queue after it, and how the
\* turn ends
poll_datagram(rq, flt, buflen, from, data) ==
    IF ~allow_through(flt, from)
    THEN [queue |-> rq, ret |-> Waiting]
    ELSE LET decoded == decode(recv_from(data, buflen)) IN
         IF decoded = None
         THEN [queue |-> rq, ret |-> Err("decode_error")]
         ELSE LET key == peer_key(from)
                  q == IF key \in DOMAIN rq THEN rq[key] ELSE MsgQueue_new
                  r == insert_chunk(q, decoded[1]) IN
              [queue |-> MapInsert(rq, key, r.q),
               ret |-> IF r.ret # None THEN Ok(from, r.ret[1]) ELSE Waiting]

\* variant: the Stages of the address are dropped, its last_released is kept
clear_addr_stages_only(rq, addr) ==
    IF addr \in DOMAIN rq
    THEN MapInsert(rq, addr, [rq[addr] EXCEPT !.stages = EmptyMap])
    ELSE rq

clear_addr(rq, addr) == MapRemove(rq, addr)

\* what HashMap::remove hands back to clear_addr, which drops it
removed_by_clear(rq, addr) == IF addr \in DOMAIN rq THEN Some(rq[addr]) ELSE None

---------------------------------------------------------------------------
(* Sender                                                                  *)

MSG_PADDING == 32

\* slice::chunks: consecutive slices of `size` elements, the last one
\* shorter when the length is no multiple of size, none of an empty slice
chunks(message, size) ==
    LET n == (Len(message) + size - 1) \div size IN
    [k \in 1..n |->
        SubSeq(message, (k - 1) * size + 1,
               IF k * size < Len(message) THEN k * size ELSE Len(message))]

\* what a call that panicked returns: nothing
Panic == [kind |-> "panic"]

\* self.datagram_length - MSG_PADDING, a subtraction in u16: below zero it
\* panics under overflow checks (None) and wraps without them
fragment_capacity(dlen, checks) ==
    IF dlen >= MSG_PADDING THEN Some(dlen - MSG_PADDING)
    ELSE IF checks THEN None
    ELSE Some(dlen - MSG_PADDING + 65536)

\* one pass of the inner loop of enqueue: the chunks of the message, each
\* with the addresses it goes to.  chunk_count + 1 is an addition in u16: on
\* the 65536th slice it panics under overflow checks, the slices before it
\* already queued, and wraps to 0 without them.
enqueue_pass(id, message, capacity, addrs, checks) ==
    LET num_chunks == Len(message) \div capacity
        slices == chunks(message, capacity)
        panicked == checks /\ Len(slices) > 65535
        queued == IF panicked THEN 65535 ELSE Len(slices) IN
    [entries |->
        [k \in 1..queued |->
            [chunk |-> MsgChunk(id, ((k - 1) + 1) % 65536,
                                (num_chunks + 1) % 65536, slices[k]),
             addrs |-> addrs]],
     panicked |-> panicked]

RECURSIVE Repeat(_, _)
Repeat(seq, n) == IF n = 0 THEN <<>> ELSE seq \o Repeat(seq, n - 1)

\* a destination that AddrsContainer::from_to_sock cannot resolve
Unresolvable == <<>>

\* variant: the message is queued once, whatever the replication
enqueue_single_copy(oq, lid, dlen, repl, checks, message, addrs) ==
    LET id == lid + 1
        capacity == fragment_capacity(dlen, checks) IN
    IF addrs = Unresolvable
    THEN [out_queue |-> oq, last_id |-> id, ret |-> Err("io_error")]
    ELSE IF capacity = None \/ capacity = Some(0)
    THEN [out_queue |-> oq, last_id |-> id, ret |-> Panic]
    ELSE LET pass == enqueue_pass(id, message, capacity[1], addrs, checks) IN
         IF pass.panicked
         THEN [out_queue |-> oq \o pass.entries, last_id |-> id, ret |-> Panic]
         ELSE [out_queue |-> oq \o pass.entries,
               last_id |-> id,
               ret |-> [kind |-> "ok"]]

\* variant: a call that fails to resolve its destination uses up no id
enqueue_id_on_success(oq, lid, dlen, repl, checks, message, addrs) ==
    LET id == lid + 1
        capacity == fragment_capacity(dlen, checks) IN
    IF addrs = Unresolvable
    THEN [out_queue |-> oq, last_id |-> lid, ret |-> Err("io_error")]
    ELSE IF capacity = None \/ capacity = Some(0)
    THEN [out_queue |-> oq, last_id |-> id, ret |-> Panic]
    ELSE LET pass == enqueue_pass(id, message, capacity[1], addrs, checks) IN
         IF pass.panicked /\ repl > 0
         THEN [out_queue |-> oq \o pass.entries, last_id |-> id, ret |-> Panic]
         ELSE [out_queue |-> oq \o Repeat(pass.entries, repl),
               last_id |-> id,
               ret |-> [kind |-> "ok"]]

\* Sender.out_queue and Sender.last_id after enqueue(message, addrs), and
\* what enqueue returns.  The id is taken first, then the destination is
\* resolved, then the capacity is computed and divided by: a capacity of 0
\* panics in every build.  (last_id is a u64; the 2^64 calls that would
\* overflow it are beyond any run followed here.)
enqueue(oq, lid, dlen, repl, checks, message, addrs) ==
    LET id == lid + 1
        capacity == fragment_capacity(dlen, checks) IN
    IF addrs = Unresolvable
    THEN [out_queue |-> oq, last_id |-> id, ret |-> Err("io_error")]
    ELSE IF capacity = None \/ capacity = Some(0)
    THEN [out_queue |-> oq, last_id |-> id, ret |-> Panic]
    ELSE LET pass == enqueue_pass(id, message, capacity[1], addrs, checks) IN
         IF pass.panicked /\ repl > 0
         THEN [out_queue |-> oq \o pass.entries, last_id |-> id, ret |-> Panic]
         ELSE [out_queue |-> oq \o Repeat(pass.entries, repl),
               last_id |-> id,
               ret |-> [kind |-> "ok"]]

\* UdpSocket::send_to hands the transport one datagram, for the first
\* address its destination yields
send_to(from, data, addrs) == [from |-> from, to |-> addrs[1], data |-> data]

\* variant: an item that fails stays at the head of the queue
send_one_keep_failed(oq, from, dlen, socket_ok) ==
    IF oq = <<>>
    THEN [out_queue |-> oq, sent |-> EmptyBag, ret |-> [kind |-> "ok", more |-> FALSE]]
    ELSE LET next == Head(oq)
             bytes == encode_bounded(next.chunk, dlen) IN
         IF bytes = None
         THEN [out_queue |-> oq, sent |-> EmptyBag, ret |-> Err("encode_error")]
         ELSE IF ~socket_ok
         THEN [out_queue |-> oq, sent |-> EmptyBag, ret |-> Err("io_error")]
         ELSE [out_queue |-> Tail(oq),
               sent |-> SetToBag({send_to(from, bytes[1], next.addrs)}),
               ret |-> [kind |-> "ok", more |-> Tail(oq) # <<>>]]

\* Sender.out_queue after send_one, the datagrams it put on the wire and
\* what it returns; socket_ok tells whether the socket takes the datagram
send_one(oq, from, dlen, socket_ok) ==
    IF oq = <<>>
    THEN [out_queue |-> oq, sent |-> EmptyBag, ret |-> [kind |-> "ok", more |-> FALSE]]
    ELSE LET next == Head(oq)
             bytes == encode_bounded(next.chunk, dlen) IN
         IF bytes = None
         THEN [out_queue |-> Tail(oq), sent |-> EmptyBag, ret |-> Err("encode_error")]
         ELSE IF ~socket_ok
         THEN [out_queue |-> Tail(oq), sent |-> EmptyBag, ret |-> Err("io_error")]
         ELSE [out_queue |-> Tail(oq),
               sent |-> SetToBag({send_to(from, bytes[1], next.addrs)}),
               ret |-> [kind |-> "ok", more |-> Tail(oq) # <<>>]]

\* what send_all is in the middle of, after a send_one that returned true
Running == [kind |-> "running"]

\* variant: send_all returns after its first send_one
send_all_turn_once(oq, from, dlen, socket_ok) ==
    LET r == send_one(oq, from, dlen, socket_ok) IN
    [out_queue |-> r.out_queue,
     sent |-> r.sent,
     ret |-> IF r.ret.kind # "ok" THEN r.ret ELSE [kind |-> "ok"]]

\* one turn of the loop of send_all: a send_one, then send_all returns its
\* error, goes round again, or returns Ok
send_all_turn(oq, from, dlen, socket_ok) ==
    LET r == send_one(oq, from, dlen, socket_ok) IN
    [out_queue |-> r.out_queue,
     sent |-> r.sent,
     ret |-> IF r.ret.kind # "ok" THEN r.ret
             ELSE IF r.ret.more THEN Running
             ELSE [kind |-> "ok"]]

\* the datagrams of one send_one, as a sequence
Taken(bag) == IF bag = EmptyBag THEN <<>> ELSE <<CHOOSE d \in BagToSet(bag) : TRUE>>

NoSender ==
    /\ out_queue = <<>>
    /\ last_id = 0
    /\ datagram_length = MSG_PADDING + 1
    /\ replication = 1
    /\ overflow_checks = FALSE
    /\ net = EmptyBag
    /\ dropped = <<>>
    /\ enqueued = <<>>
    /\ polled = <<>>
    /\ transmitted = <<>>

---------------------------------------------------------------------------
(* SpecNet: the round trip of one message.  A new Sender at address a1    *)
(* enqueues a message for the Receiver at r1 and drains its queue; the     *)
(* transport delivers every datagram once, in any order.                   *)

\* messages are the byte strings 1, 2, .., L for L in 0..MaxLen
MaxLen == 4
\* datagram_length is MSG_PADDING + 1 .. MSG_PADDING + MaxCapacity, or one
\* of the lengths that leave no room for a payload: MSG_PADDING and
\* MSG_PADDING - 1
MaxCapacity == 3
\* replication is 0..MaxReplication
MaxReplication == 2
\* the socket refuses at most MaxSendFailures datagrams
MaxSendFailures == 1

Messages == {[i \in 1..len |-> i] : len \in 0..MaxLen}
SenderAddr == "a1"
ReceiverAddr == "r1"
\* a destination that resolves to one address, one that resolves to two, and
\* one that does not resolve
Destinations == {<<ReceiverAddr>>, <<ReceiverAddr, "r2">>, Unresolvable}

InitNet ==
    /\ mq = MsgQueue_new
    /\ call = [op |-> "new"]
    /\ ret = [kind |-> "ok"]
    /\ queue = EmptyMap
    /\ filter = empty_blacklist
    /\ recv_datagram_length \in RecvLengths
    /\ out_queue = <<>>
    /\ last_id = 0
    /\ datagram_length \in {MSG_PADDING + c : c \in 1..MaxCapacity}
                              \cup {MSG_PADDING, MSG_PADDING - 1}
    /\ replication \in 0..MaxReplication
    /\ overflow_checks \in BOOLEAN
    /\ net = EmptyBag
    /\ dropped = <<>>
    /\ enqueued = <<>>
    /\ polled = <<>>
    /\ transmitted = <<>>

\* SpecNet follows one message: enqueue is called once, on the new Sender
Enqueue ==
    \E message \in Messages, addrs \in Destinations :
        LET r == enqueue(out_queue, last_id, datagram_length, replication,
                         overflow_checks, message, addrs) IN
        /\ last_id = 0
        /\ out_queue' = r.out_queue
        /\ last_id' = r.last_id
        /\ call' = [op |-> "enqueue", message |-> message, addrs |-> addrs]
        /\ ret' = r.ret
        /\ enqueued' = IF r.ret.kind = "ok"
                       THEN Append(enqueued, [id |-> r.last_id, message |-> message])
                       ELSE enqueued
        /\ UNCHANGED <<mq, recv_vars, datagram_length, replication, overflow_checks,
                       net, dropped, polled, transmitted>>

SendOne ==
    \E socket_ok \in BOOLEAN :
        LET r == send_one(out_queue, SenderAddr, datagram_length, socket_ok) IN
        /\ socket_ok \/ Len(dropped) < MaxSendFailures
        /\ out_queue' = r.out_queue
        /\ net' = net (+) r.sent
        /\ transmitted' = transmitted \o Taken(r.sent)
        /\ dropped' = IF r.ret.kind = "ok" THEN dropped
                      ELSE Append(dropped, Head(out_queue))
        /\ call' = [op |-> "send_one"]
        /\ ret' = r.ret
        /\ UNCHANGED <<mq, recv_vars, last_id, datagram_length, replication,
                       overflow_checks, enqueued, polled>>

\* the Receiver's poll gets a datagram that is on the wire
Deliver ==
    \E d \in BagToSet(net) :
        LET r == poll_datagram(queue, filter, recv_datagram_length, d.from, d.data) IN
        /\ d.to = ReceiverAddr
        /\ net' = net (-) SetToBag({d})
        /\ queue' = r.queue
        /\ call' = [op |-> "poll", from |-> d.from, data |-> d.data]
        /\ ret' = r.ret
        /\ polled' = IF r.ret.kind = "ok"
                     THEN Append(polled, [from |-> r.ret.from, msg |-> r.ret.msg])
                     ELSE polled
        /\ UNCHANGED <<mq, filter, recv_datagram_length, send_vars, dropped,
                       enqueued, transmitted>>

NextNet == Enqueue \/ SendOne \/ Deliver

SpecNet == InitNet /\ [][NextNet]_vars

---------------------------------------------------------------------------
(* SpecDrain: the Sender alone.  It queues one message and drains its      *)
(* queue with send_one and send_all, whose loop is followed turn by turn;  *)
(* the socket may refuse a datagram, and datagram_length, a public field,  *)
(* may be lowered once the message is queued, so that a chunk queued under *)
(* the old length no longer encodes within the new one.                    *)

\* send_all is between two turns of its loop
Draining == call.op = "send_all" /\ ret = Running

LoweredLengths == {MSG_PADDING - 10}

SetDatagramLength ==
    \E dlen \in LoweredLengths :
        /\ last_id > 0
        /\ datagram_length # dlen
        /\ datagram_length' = dlen
        /\ call' = [op |-> "set_datagram_length"]
        /\ ret' = [kind |-> "ok"]
        /\ UNCHANGED <<mq, recv_vars, out_queue, last_id, replication,
                       overflow_checks, net_vars>>

\* send_all is called, or goes through one more turn of its loop
SendAllTurn ==
    \E socket_ok \in BOOLEAN :
        LET r == send_all_turn(out_queue, SenderAddr, datagram_length, socket_ok) IN
        /\ socket_ok \/ Len(dropped) < MaxSendFailures
        /\ out_queue' = r.out_queue
        /\ net' = net (+) r.sent
        /\ transmitted' = transmitted \o Taken(r.sent)
        /\ dropped' = IF r.ret.kind \in {"ok", "running"} THEN dropped
                      ELSE Append(dropped, Head(out_queue))
        /\ call' = [op |-> "send_all"]
        /\ ret' = r.ret
        /\ UNCHANGED <<mq, recv_vars, last_id, datagram_length, replication,
                       overflow_checks, enqueued, polled>>

\* the Sender is borrowed by send_all until it returns
EnqueueIdle == ~Draining /\ Enqueue
SendOneIdle == ~Draining /\ SendOne
SetDatagramLengthIdle == ~Draining /\ SetDatagramLength

NextDrain == EnqueueIdle \/ SendOneIdle \/ SetDatagramLengthIdle \/ SendAllTurn

\* the Sender alone: its socket's other half reads with a wide buffer
InitSender == InitNet /\ recv_datagram_length = WideLength

SpecDrain == InitSender /\ [][NextDrain]_vars

\* send_all runs on once called
SpecDrainFair == SpecDrain /\ WF_vars(SendAllTurn)

---------------------------------------------------------------------------
(* SpecEnqueue: a Sender on which enqueue is called MaxMessages times.     *)

MaxMessages == 2

EnqueueNext ==
    \E message \in Messages, addrs \in Destinations :
        LET r == enqueue(out_queue, last_id, datagram_length, replication,
                         overflow_checks, message, addrs) IN
        /\ last_id < MaxMessages
        /\ out_queue' = r.out_queue
        /\ last_id' = r.last_id
        /\ call' = [op |-> "enqueue", message |-> message, addrs |-> addrs]
        /\ ret' = r.ret
        /\ enqueued' = IF r.ret.kind = "ok"
                       THEN Append(enqueued, [id |-> r.last_id, message |-> message])
                       ELSE enqueued
        /\ UNCHANGED <<mq, recv_vars, datagram_length, replication, overflow_checks,
                       net, dropped, polled, transmitted>>

SpecEnqueue == InitSender /\ [][EnqueueNext]_vars

---------------------------------------------------------------------------
(* SpecRecv: a Receiver polled on datagrams from two source addresses.     *)

\* the chunks that arrive: ids 1..MaxRecvId, in one piece or in two
MaxRecvId == 2
RecvChunks ==
    {MsgChunk(id, pn[1], pn[2], <<0>>) :
        id \in 1..MaxRecvId, pn \in {<<1, 1>>, <<1, 2>>, <<2, 2>>}}
Datagrams == {encode(c) : c \in RecvChunks} \cup {Malformed}
Filters == [mode : {"Whitelist", "Blacklist"}, set : SUBSET Addrs]

InitRecv ==
    /\ mq = MsgQueue_new
    /\ call = [op |-> "new", from |-> NoAddr, data |-> Malformed]
    /\ ret = Waiting
    /\ queue = EmptyMap
    /\ filter \in Filters
    /\ recv_datagram_length \in RecvLengths
    /\ NoSender

\* socket.recv_from hands poll a datagram
Poll ==
    \E from \in Addrs, data \in Datagrams :
        LET r == poll_datagram(queue, filter, recv_datagram_length, from, data) IN
        /\ queue' = r.queue
        /\ call' = [op |-> "poll", from |-> from, data |-> data]
        /\ ret' = r.ret
        /\ UNCHANGED <<mq, filter, recv_datagram_length, send_vars, net_vars>>

\* socket.recv_from fails
PollRecvFails ==
    /\ call' = [op |-> "poll", from |-> NoAddr, data |-> Malformed]
    /\ ret' = Err("io_error")
    /\ UNCHANGED <<mq, recv_vars, send_vars, net_vars>>

ClearAddr ==
    \E addr \in Addrs :
        /\ queue' = clear_addr(queue, addr)
        /\ call' = [op |-> "clear_addr", from |-> addr, data |-> Malformed]
        /\ ret' = Waiting
        /\ UNCHANGED <<mq, filter, recv_datagram_length, send_vars, net_vars>>

NextRecv == Poll \/ PollRecvFails \/ ClearAddr

SpecRecv == InitRecv /\ [][NextRecv]_vars

---------------------------------------------------------------------------
(* SpecClear: a Receiver that admits every address, polled and cleared;    *)
(* a clear_addr step keeps in ret the MsgQueue it removed.                 *)

InitClear ==
    /\ mq = MsgQueue_new
    /\ call = [op |-> "new", from |-> NoAddr, data |-> Malformed]
    /\ ret = Waiting
    /\ queue = EmptyMap
    /\ filter = empty_blacklist
    /\ recv_datagram_length \in RecvLengths
    /\ NoSender

ClearAddrNoted ==
    \E addr \in Addrs :
        /\ queue' = clear_addr(queue, addr)
        /\ call' = [op |-> "clear_addr", from |-> addr, data |-> Malformed]
        /\ ret' = [kind |-> "cleared", from |-> NoAddr, msg |-> NoMessage,
                   removed |-> removed_by_clear(queue, addr)]
        /\ UNCHANGED <<mq, filter, recv_datagram_length, send_vars, net_vars>>

NextClear == Poll \/ ClearAddrNoted

SpecClear == InitClear /\ [][NextClear]_vars

---------------------------------------------------------------------------
(* Spec: one MsgQueue fed arbitrary chunks.                                *)

Init ==
    /\ mq = MsgQueue_new
    /\ call = [op |-> "new", chunk |-> NoChunk]
    /\ ret = None
    /\ queue = EmptyMap
    /\ filter = empty_blacklist
    /\ recv_datagram_length = WideLength
    /\ NoSender

InsertChunk ==
    \E chunk \in Chunks :
        LET r == insert_chunk(mq, chunk) IN
        /\ mq' = r.q
        /\ call' = [op |-> "insert_chunk", chunk |-> chunk]
        /\ ret' = r.ret
        /\ UNCHANGED <<recv_vars, send_vars, net_vars>>

Next == InsertChunk

Spec == Init /\ [][Next]_vars

---------------------------------------------------------------------------
(* SpecReassembly: the pieces of one message, all carrying the same id and *)
(* the same total, fed to a fresh MsgQueue in any order, repeats included. *)

InsertPiece ==
    \E id \in Ids, n \in 2..MaxPieces :
        /\ call.op # "new" => (id = call.chunk.id /\ n = call.chunk.total)
        /\ \E i \in 1..n, b \in Payloads :
            LET chunk == MsgChunk(id, i, n, b)
                r == insert_chunk(mq, chunk) IN
            /\ mq' = r.q
            /\ call' = [op |-> "insert_chunk", chunk |-> chunk]
            /\ ret' = r.ret
            /\ UNCHANGED <<recv_vars, send_vars, net_vars>>

SpecReassembly == Init /\ [][InsertPiece]_vars

---------------------------------------------------------------------------
(* Claims about one MsgQueue (Spec).                                       *)

InsertStep == call'.op = "insert_chunk"
Stale(q, id) == q.last_released # None /\ id <= q.last_released[1]
Released(id) == call.op = "insert_chunk" /\ ret # None /\ ret[1].id = id

\* C1: whenever last_released is set, every open Stage's id is strictly
\* greater than it, whatever chunks were inserted.
C1_OpenStagesAboveLastReleased ==
    mq.last_released # None =>
        \A open \in DOMAIN mq.stages : open > mq.last_released[1]

\* C2: once last_released = N, insert_chunk of a chunk with id <= N returns
\* none and leaves last_released and every Stage as they were.
C2_StaleChunkRejected ==
    [][(InsertStep /\ Stale(mq, call'.chunk.id)) => (ret' = None /\ mq' = mq)]_vars

\* a single-piece chunk of an older id was dropped while a Stage was open
C2_Witness ==
    /\ call.op = "insert_chunk" /\ ret = None
    /\ mq.last_released # None /\ call.chunk.id < mq.last_released[1]
    /\ call.chunk.total = 1
    /\ DOMAIN mq.stages # {}

\* C3: a release of id B discards, in the same call, every Stage open for an
\* id A < B, and once B was released no later call returns a message with an
\* id A < B.
C3_SupersessionPurge ==
    /\ [][(InsertStep /\ ret' # None) =>
            \A a \in DOMAIN mq.stages :
                a < ret'[1].id => a \notin DOMAIN mq'.stages]_vars
    /\ \A a \in Ids : \A b \in Ids :
            a < b => [](Released(b) => [](~Released(a)))

\* the second piece of a two-piece message arrived after a newer id was
\* released, and was dropped
C3_Witness ==
    /\ call.op = "insert_chunk" /\ ret = None
    /\ call.chunk.total = 2 /\ call.chunk.index = 2
    /\ mq.last_released # None /\ call.chunk.id < mq.last_released[1]
    /\ call.chunk.id \notin DOMAIN mq.stages

\* the chunk of this step repeats an (id, index) an open Stage already holds
DuplicateStep ==
    /\ InsertStep
    /\ call'.chunk.id \in DOMAIN mq.stages
    /\ call'.chunk.index \in DOMAIN mq.stages[call'.chunk.id].pieces

\* C5: a chunk whose (id, index) an open Stage already holds leaves that
\* Stage as it was, releases nothing, and so cannot change the message the
\* Stage will merge to.
C5_DuplicatePieceIgnored ==
    [][DuplicateStep =>
        /\ call'.chunk.id \in DOMAIN mq'.stages
        /\ mq'.stages[call'.chunk.id] = mq.stages[call'.chunk.id]
        /\ ret' = None]_vars

\* C6 as stated: a chunk with total = 1 always yields the CompleteMessage of
\* its id and payload, sets last_released and creates no Stage.
C6_SinglePieceAlwaysReleased ==
    [][(InsertStep /\ call'.chunk.total = 1) =>
        /\ ret' = Some(CompleteMessage(call'.chunk.id, call'.chunk.bytes))
        /\ mq'.last_released = Some(call'.chunk.id)
        /\ DOMAIN mq'.stages \subseteq DOMAIN mq.stages]_vars

\* C6 amended: a chunk with total = 1 that is not stale yields the
\* CompleteMessage of its id and payload, sets last_released to its id in the
\* same call and creates no Stage; a stale one returns none.
C6_SinglePieceFastPath ==
    [][(InsertStep /\ call'.chunk.total = 1) =>
        IF Stale(mq, call'.chunk.id)
        THEN ret' = None
        ELSE /\ ret' = Some(CompleteMessage(call'.chunk.id, call'.chunk.bytes))
             /\ mq'.last_released = Some(call'.chunk.id)
             /\ DOMAIN mq'.stages \subseteq DOMAIN mq.stages]_vars

\* a single-piece chunk was released while a Stage of a newer id stayed open
C6_Witness ==
    /\ call.op = "insert_chunk" /\ call.chunk.total = 1
    /\ ret = Some(CompleteMessage(call.chunk.id, call.chunk.bytes))
    /\ mq.last_released = Some(call.chunk.id)
    /\ \E open \in DOMAIN mq.stages : open > call.chunk.id

\* the indices a queue holds for an id
Held(q, id) == IF id \in DOMAIN q.stages THEN DOMAIN q.stages[id].pieces ELSE {}

\* C19: every chunk a Stage stores has an index in 1..total_pieces of the
\* Stage, whatever chunks arrive, so a message is merged only from a Stage
\* that holds exactly the indices 1..total_pieces; a chunk with index 0 or
\* with an index past the total does not count towards readiness.
C19_PiecePositionsValid ==
    /\ [](\A id \in DOMAIN mq.stages :
            DOMAIN mq.stages[id].pieces \subseteq 1..mq.stages[id].total_pieces)
    /\ [][(InsertStep /\ ret' # None /\ call'.chunk.total # 1) =>
            Held(mq, call'.chunk.id) \cup {call'.chunk.index}
                = 1..mq.stages[call'.chunk.id].total_pieces]_vars

\* C20: a call of insert_chunk that returns a message returns one with an
\* id greater than last_released and sets last_released to that id; a call
\* that returns none leaves last_released as it was.  So the ids returned
\* are strictly increasing, each id is released at most once, and
\* last_released never decreases.
C20_MonotoneRelease ==
    /\ [][InsertStep =>
            IF ret' # None
            THEN /\ mq.last_released # None => ret'[1].id > mq.last_released[1]
                 /\ mq'.last_released = Some(ret'[1].id)
            ELSE mq'.last_released = mq.last_released]_vars
    /\ []((call.op = "insert_chunk" /\ ret # None) =>
            mq.last_released = Some(ret[1].id))

\* the single-piece chunk of the id last released came again and was not
\* released a second time
C20_Witness ==
    /\ call.op = "insert_chunk" /\ call.chunk.total = 1
    /\ ret = None
    /\ mq.last_released = Some(call.chunk.id)

---------------------------------------------------------------------------
(* Claims about the reassembly of one message (SpecReassembly).            *)

RECURSIVE ConcatUpTo(_, _)
ConcatUpTo(f, n) == IF n = 0 THEN <<>> ELSE ConcatUpTo(f, n - 1) \o f[n]

\* C4: with pieces 1..n of one message inserted in any order into a fresh
\* queue, insert_chunk returns none until the n-th distinct piece arrives,
\* and then the CompleteMessage of that id whose payload is the payloads of
\* pieces 1, 2, .., n in that order, each as first stored.
C4_OrderIndependentReassembly ==
    [][InsertStep =>
        LET c == call'.chunk
            have == Held(mq, c.id)
            payload == [j \in 1..c.total |->
                          IF j \in have THEN mq.stages[c.id].pieces[j].bytes ELSE c.bytes]
        IN  IF mq.last_released = None /\ have \cup {c.index} = 1..c.total
            THEN ret' = Some(CompleteMessage(c.id, ConcatUpTo(payload, c.total)))
            ELSE ret' = None]_vars

\* a three-piece message completed when piece 1 arrived last, and its first
\* two bytes differ
C4_Witness ==
    /\ call.op = "insert_chunk" /\ call.chunk.total = 3 /\ call.chunk.index = 1
    /\ ret # None /\ Len(ret[1].bytes) = 3
    /\ ret[1].bytes[1] # ret[1].bytes[2]

---------------------------------------------------------------------------
(* Claims about the Receiver (SpecRecv).                                   *)

\* what poll reads of the datagram of this step
Arrived == recv_from(call'.data, recv_datagram_length)

\* the MsgQueue the Receiver keeps for an address, a fresh one if none
QueueOf(rq, addr) == IF addr \in DOMAIN rq THEN rq[addr] ELSE MsgQueue_new

\* this step is a turn of poll that released a message of peer p
ReleaseStep(p) == call'.op = "poll" /\ ret'.kind = "ok" /\ ret'.from = p

\* C7: a Stage open for peer p and id a goes away only when a message of p
\* with id a or with a greater id is released, or when p is cleared; while
\* it is open it keeps its total and every piece it stored; and a release of
\* id X leaves every Stage of an id > X as it was.
C7_StageLifetime ==
    [][\A p \in DOMAIN queue : \A a \in DOMAIN queue[p].stages :
        LET gone == a \notin DOMAIN QueueOf(queue', p).stages
            old == queue[p].stages[a] IN
        /\ gone => \/ call'.op = "clear_addr" /\ call'.from = p
                   \/ ReleaseStep(p) /\ ret'.msg.id >= a
        /\ ~gone =>
             LET new == queue'[p].stages[a] IN
             /\ new.total_pieces = old.total_pieces
             /\ \A i \in DOMAIN old.pieces :
                    i \in DOMAIN new.pieces /\ new.pieces[i] = old.pieces[i]
        /\ (ReleaseStep(p) /\ ret'.msg.id < a) =>
             ~gone /\ queue'[p].stages[a] = old]_vars

\* the two-piece message 1 of a peer has just completed while a piece of its
\* message 2 stays buffered
C7_Witness ==
    /\ call.op = "poll" /\ ret.kind = "ok"
    /\ ret.msg.id = 1 /\ Len(ret.msg.bytes) = 2
    /\ ret.from \in DOMAIN queue
    /\ 2 \in DOMAIN queue[ret.from].stages

\* C10: a datagram from address X, and a clear of X, leave the MsgQueue of
\* every other address as it was (present or not); and a single-piece chunk
\* from an admitted address Y is released whenever Y's own queue does not
\* hold it stale, whatever the other addresses have released.
C10_PeerIsolation ==
    /\ [][\A y \in Addrs :
            y # call'.from =>
                /\ (y \in DOMAIN queue') = (y \in DOMAIN queue)
                /\ y \in DOMAIN queue => queue'[y] = queue[y]]_vars
    /\ [][(/\ call'.op = "poll" /\ call'.from \in Addrs
           /\ allow_through(filter, call'.from)
           /\ decode(Arrived) # None
           /\ decode(Arrived)[1].total = 1
           /\ ~Stale(QueueOf(queue, call'.from), decode(Arrived)[1].id))
          => ret' = Ok(call'.from,
                       CompleteMessage(decode(Arrived)[1].id,
                                       decode(Arrived)[1].bytes))]_vars

\* a message was released for one address although another address had
\* already released a greater id and holds an open Stage
C10_Witness ==
    /\ call.op = "poll" /\ ret.kind = "ok"
    /\ \E x \in DOMAIN queue \ {ret.from} :
        /\ queue[x].last_released # None
        /\ queue[x].last_released[1] > ret.msg.id
        /\ DOMAIN queue[x].stages # {}

\* this step is a turn of poll on a datagram from one of the addresses
PollStep == call'.op = "poll" /\ call'.from \in Addrs

\* C11: a datagram is admitted iff its source address is in the set of a
\* whitelist or not in the set of a blacklist; one that is not admitted,
\* malformed or not, leaves Receiver.queue as it was (no insert_chunk, no
\* peer queue created), completes nothing and raises no error: poll keeps
\* waiting.  An admitted one goes on to decoding and to its peer queue.
C11_AddressFilter ==
    [][PollStep =>
        LET from == call'.from
            listed == from \in filter.set
            admitted == (filter.mode = "Whitelist" /\ listed)
                            \/ (filter.mode = "Blacklist" /\ ~listed)
            decoded == decode(Arrived) IN
        IF admitted
        THEN IF decoded = None
             THEN ret'.kind = "decode_error"
             ELSE /\ from \in DOMAIN queue'
                  /\ queue'[from] = insert_chunk(QueueOf(queue, from), decoded[1]).q
        ELSE queue' = queue /\ ret' = Waiting]_vars

\* a malformed datagram from a blacklisted address was passed over while the
\* other address has an open Stage
C11_Witness ==
    /\ call.op = "poll" /\ call.data = Malformed
    /\ filter.mode = "Blacklist" /\ call.from \in filter.set
    /\ ret = Waiting
    /\ call.from \notin DOMAIN queue
    /\ \E x \in DOMAIN queue : DOMAIN queue[x].stages # {}

\* C12: an admitted datagram that does not decode ends that call of poll
\* with an error and leaves Receiver.queue as it was: no MsgQueue is created
\* for its source, no last_released and no Stage changes, so the polls that
\* follow reassemble from the state before the bad datagram.
C12_DecodeFailure ==
    [][(PollStep /\ allow_through(filter, call'.from)
                /\ decode(Arrived) = None)
          => (ret' = Err("decode_error") /\ queue' = queue)]_vars

\* a malformed datagram from an address not seen before was refused while
\* the other address holds one piece of a message
C12_Witness ==
    /\ call.op = "poll" /\ call.data = Malformed
    /\ ret = Err("decode_error")
    /\ call.from \notin DOMAIN queue
    /\ \E x \in DOMAIN queue : DOMAIN queue[x].stages # {}

\* C18: clear_addr(address) leaves no MsgQueue for that address, so neither
\* its last_released nor any of its Stages, and leaves the MsgQueue of every
\* other address as it was.  The next chunk from an address that has no
\* MsgQueue is handled as the first chunk of a new peer, whatever was
\* released or buffered before the clear: a single-piece chunk of any id is
\* released, and a piece of a longer message is alone in its new Stage.
C18_ClearForgetsPeer ==
    /\ [][call'.op = "clear_addr" =>
            /\ call'.from \notin DOMAIN queue'
            /\ \A y \in Addrs \ {call'.from} :
                  /\ (y \in DOMAIN queue') = (y \in DOMAIN queue)
                  /\ y \in DOMAIN queue => queue'[y] = queue[y]]_vars
    /\ [][(PollStep /\ call'.from \notin DOMAIN queue
                    /\ allow_through(filter, call'.from)
                    /\ decode(Arrived) # None) =>
            LET from == call'.from
                c == decode(Arrived)[1] IN
            IF c.total = 1
            THEN /\ ret' = Ok(from, CompleteMessage(c.id, c.bytes))
                 /\ queue'[from] = [last_released |-> Some(c.id), stages |-> EmptyMap]
            ELSE /\ ret' = Waiting
                 /\ queue'[from].last_released = None
                 /\ DOMAIN queue'[from].stages = {c.id}
                 /\ DOMAIN queue'[from].stages[c.id].pieces = {c.index}]_vars

\* the queue of an address that had released a message and held an open
\* Stage was cleared, while the other address keeps its open Stage
C18_Witness ==
    /\ call.op = "clear_addr" /\ call.from \notin DOMAIN queue
    /\ ret.removed # None
    /\ ret.removed[1].last_released # None
    /\ DOMAIN ret.removed[1].stages # {}
    /\ \E x \in DOMAIN queue : DOMAIN queue[x].stages # {}

---------------------------------------------------------------------------
(* Claims about the Sender and the round trip (SpecNet).                   *)

CeilDiv(a, b) == (a + b - 1) \div b
\* the payload bytes of one chunk, as enqueue computes them where it returns
Capacity ==
    IF datagram_length >= MSG_PADDING THEN datagram_length - MSG_PADDING
    ELSE datagram_length - MSG_PADDING + 65536

\* every datagram of the one message enqueued so far has been sent and polled
AllDelivered ==
    /\ Len(enqueued) = 1 /\ replication >= 1
    /\ out_queue = <<>> /\ dropped = <<>> /\ net = EmptyBag
    /\ datagram_length > MSG_PADDING
    /\ recv_datagram_length >= datagram_length

\* C8: once every chunk enqueue queued for a message has been delivered, in
\* any order and with its replicated copies, to a fresh peer queue, poll has
\* returned exactly one CompleteMessage, with the message's id and payload.
C8_RoundTrip ==
    AllDelivered =>
        polled = <<[from |-> SenderAddr,
                    msg |-> CompleteMessage(enqueued[1].id, enqueued[1].message)]>>

\* C9: the chunks enqueue queues for a message of length L carry total =
\* ceil(L / C), C = datagram_length - MSG_PADDING, and are numbered 1..total
\* in every replicated copy.
C9_FragmentNumbering ==
    (call.op = "enqueue" /\ ret.kind = "ok" /\ datagram_length > MSG_PADDING) =>
        LET n == CeilDiv(Len(call.message), Capacity)
            mine == SelectSeq(out_queue, LAMBDA e : e.chunk.id = last_id) IN
        /\ \A k \in DOMAIN mine : mine[k].chunk.total = n
        /\ [k \in DOMAIN mine |-> mine[k].chunk.index]
              = Repeat([i \in 1..n |-> i], replication)

---------------------------------------------------------------------------
(* Claims about draining the outbound queue (SpecDrain).                   *)

\* this step is a send_one, or a turn of send_all
DrainStep == call'.op \in {"send_one", "send_all"}
DrainFailed == ret'.kind \in {"encode_error", "io_error"}

\* what a sequence of datagrams, or of queue entries, reads on the wire
DataOf(datagrams) == [i \in DOMAIN datagrams |-> datagrams[i].data]
WireOf(entries) == [i \in DOMAIN entries |-> encode(entries[i].chunk)]
Range(seq) == {seq[i] : i \in DOMAIN seq}

\* C13: when encoding or transmitting the popped item fails, send_one, and
\* the send_all that called it, returns the error in that call; the item is
\* gone from the queue and nothing was transmitted for it, the items behind
\* it stay queued in their order; and since a datagram is only ever
\* transmitted for the item a drain pops, no later drain transmits it.
C13_DrainFailure ==
    /\ [][(DrainStep /\ DrainFailed) =>
            /\ out_queue # <<>>
            /\ out_queue' = Tail(out_queue)
            /\ transmitted' = transmitted
            /\ net' = net
            /\ ~Draining']_vars
    /\ [][transmitted' # transmitted =>
            /\ DrainStep /\ ~DrainFailed
            /\ out_queue # <<>>
            /\ out_queue' = Tail(out_queue)
            /\ DataOf(transmitted') = Append(DataOf(transmitted),
                                             encode(Head(out_queue).chunk))]_vars
    /\ [][\/ out_queue' = out_queue
          \/ DrainStep /\ out_queue # <<>> /\ out_queue' = Tail(out_queue)
          \/ /\ call'.op = "enqueue"
             /\ Len(out_queue') > Len(out_queue)
             /\ SubSeq(out_queue', 1, Len(out_queue)) = out_queue]_vars

\* send_all stopped on a chunk that no longer encodes, after it had sent a
\* datagram, and with items left in the queue
C13_Witness ==
    /\ call.op = "send_all" /\ ret = Err("encode_error")
    /\ transmitted # <<>>
    /\ out_queue # <<>>
    /\ Len(dropped) = 1

\* C14: a drain pops the oldest queue entry, so the chunks leave in the
\* order enqueue appended them, and puts on the wire one datagram of that
\* chunk for every address of the entry's destination.
C14_DrainOrderAndFanOut ==
    [][(DrainStep /\ ~DrainFailed /\ out_queue # <<>>) =>
        LET next == Head(out_queue) IN
        /\ out_queue' = Tail(out_queue)
        /\ net' (-) net =
              SetToBag({[from |-> SenderAddr, to |-> a, data |-> encode(next.chunk)] :
                           a \in Range(next.addrs)})]_vars

\* C15: send_one returns true iff the queue is non-empty after it; on an
\* empty queue it transmits nothing and returns false; a send_one that
\* succeeds shortens the queue by one.  A turn of send_all that does not
\* fail moves the head of the queue to the wire and nothing else, send_all
\* goes on exactly while the queue is non-empty, and once called it
\* returns: with the queue empty when it returns Ok.
C15_DrainAllTerminates ==
    /\ [][(call'.op = "send_one" /\ ret'.kind = "ok") =>
            /\ ret'.more = (out_queue' # <<>>)
            /\ out_queue = <<>> =>
                  (~ret'.more /\ out_queue' = <<>> /\ transmitted' = transmitted)
            /\ out_queue # <<>> => Len(out_queue') = Len(out_queue) - 1]_vars
    /\ [][(call'.op = "send_all" /\ ~DrainFailed) =>
            /\ DataOf(transmitted') \o WireOf(out_queue')
                  = DataOf(transmitted) \o WireOf(out_queue)
            /\ Len(out_queue') = (IF out_queue = <<>> THEN 0 ELSE Len(out_queue) - 1)
            /\ (ret' = Running) = (out_queue' # <<>>)
            /\ (ret'.kind = "ok") = (out_queue' = <<>>)]_vars
    /\ [](Draining => <>(call.op = "send_all" /\ ret # Running))

\* send_all has returned Ok after at least three turns without a failure
C15_Witness ==
    /\ call.op = "send_all" /\ ret.kind = "ok"
    /\ out_queue = <<>> /\ dropped = <<>>
    /\ Len(transmitted) >= 3

---------------------------------------------------------------------------
(* Claims about enqueue (SpecEnqueue).                                     *)

EnqueueStep == call'.op = "enqueue"

\* the entries this step appended to the outbound queue
Appended == SubSeq(out_queue', Len(out_queue) + 1, Len(out_queue'))

\* the j-th slice of C bytes of a message
Slice(message, C, j) ==
    SubSeq(message, (j - 1) * C + 1,
           IF j * C < Len(message) THEN j * C ELSE Len(message))

\* C16: an enqueue with replication r of a message of k slices appends
\* r * k entries, r copies in a row of the same k chunks: every copy of
\* slice j is the same entry, with the payload of slice j, and every entry
\* carries the id assigned to this call.
C16_Replication ==
    [][(EnqueueStep /\ ret'.kind = "ok") =>
        LET k == CeilDiv(Len(call'.message), Capacity) IN
        /\ SubSeq(out_queue', 1, Len(out_queue)) = out_queue
        /\ Len(Appended) = replication * k
        /\ \A i \in DOMAIN Appended :
              LET j == ((i - 1) % k) + 1 IN
              /\ Appended[i] = Appended[j]
              /\ Appended[i].chunk.bytes = Slice(call'.message, Capacity, j)
              /\ Appended[i].chunk.id = last_id']_vars

\* the second message of a Sender with replication 2 was queued as two
\* copies of its two chunks, behind the chunks of the first message
C16_Witness ==
    /\ call.op = "enqueue" /\ ret.kind = "ok"
    /\ replication = 2 /\ Capacity = 3 /\ Len(call.message) = 4
    /\ last_id = 2
    /\ Len(out_queue) > 4

\* C17: every enqueue, one that fails to resolve its destination included,
\* assigns an id strictly greater than the id of every earlier call: the id
\* counter grows in every call, the entries a call appends carry the new id
\* and every entry queued before carries a smaller one, so the ids of the
\* messages queued are strictly increasing and no two messages share one.
C17_MessageIdMonotone ==
    /\ [][EnqueueStep =>
            /\ last_id' > last_id
            /\ \A i \in DOMAIN out_queue : out_queue[i].chunk.id < last_id'
            /\ \A i \in DOMAIN Appended : Appended[i].chunk.id = last_id'
            /\ \A i \in DOMAIN enqueued : enqueued[i].id < last_id']_vars
    /\ [](\A i \in DOMAIN enqueued : \A j \in DOMAIN enqueued :
            i < j => enqueued[i].id < enqueued[j].id)
    /\ [](\A i \in DOMAIN out_queue : \A j \in DOMAIN out_queue :
            i < j => out_queue[i].chunk.id <= out_queue[j].chunk.id)

\* the first call failed to resolve its destination and the second call
\* queued its message under id 2
C17_Witness ==
    /\ call.op = "enqueue" /\ ret.kind = "ok"
    /\ last_id = 2
    /\ Len(enqueued) = 1 /\ enqueued[1].id = 2
    /\ out_queue # <<>>

===========================================================================
